---- MODULE Spec2Model ----
(***************************************************************************)
(* Order-to-service provisioning pipeline of the billing backend           *)
(* (src/backend/server.py): the payment-confirmation handlers that mark an *)
(* order paid and schedule provision_order_services, and the provisioning  *)
(* task that walks the order's line items and talks to the XtreamUI and    *)
(* XuiOne panels.                                                          *)
(*                                                                         *)
(* Granularity.  A handler or task is cut where it awaits a database read  *)
(* whose result it later acts on: the step that reads (find_one) and the   *)
(* step that writes (update_one / insert_one, together with everything    *)
(* the code does after it without re-reading) are separate actions, so two *)
(* handlers or two tasks can both read before either writes.  Calls to a   *)
(* panel or a payment gateway are inputs: their outcome is drawn with \E.  *)
(* Time is counted in whole days.                                          *)
(***************************************************************************)
EXTENDS Integers, Sequences, FiniteSets, Bags

\* ------------------------------------------------------------------ bounds
MaxOrders == 1
MaxHandlers == 2
MaxTasks == 2
MaxItems == 2
MaxTerm == 1
MaxNow == 3
MaxSeed == 1

\* ------------------------------------------------------- program constants
DaysPerMonth == 30

\* -------------------------------------------------------------- vocabulary
NoId == 0
NoDate == -1
NullDate == -2
NoErr == "none"
Users == {"u1", "u2"}
OrderIds == 1..MaxOrders
Slots == 1..MaxHandlers

VARIABLES now, settings, orders, invoices, stripeTxn, handlers, tasks,
          services, ops, mails, imported, remote, report

vars == <<now, settings, orders, invoices, stripeTxn, handlers, tasks,
          services, ops, mails, imported, remote, report>>

\* the order-to-service pipeline, and the mirror of the panels' accounts
coreVars == <<now, settings, orders, invoices, stripeTxn, handlers, tasks,
              services, ops, mails>>
syncVars == <<imported, remote, report>>

\* ------------------------------------------------------------------ helpers
\* the email service the handlers obtain: None unless smtp is configured.
\* email_service.py in the tree is an older revision than its callers (its
\* factory takes four parameters, the call passes five, and it has no
\* send_service_renewed); the factory is taken by its body, the mails by
\* their call sites.
get_configured_email_service == settings.smtp

IdleHandler == [kind |-> "none", order |-> NoId, pc |-> "idle", result |-> "none"]

\* the background task add_task(provision_order_services, order_id, order, user)
\* puts on the queue: it carries the order document the handler read.  Its
\* line items are inputs: items holds those the loop has reached so far, the
\* last of them being the one in hand.
provision_task(o) ==
    [order |-> o, user |-> orders[o].user, n |-> orders[o].n,
     pc |-> "queued", i |-> 0, items |-> <<>>, pidx |-> 0,
     existing |-> NoId, snap |-> NoDate, expiry |-> NoDate]

\* update_one on the order and on its invoice
SetPaid(o) ==
    /\ orders' = [orders EXCEPT ![o].status = "paid"]
    /\ invoices' = [invoices EXCEPT ![o] = "paid"]

Invoke(h, k, o) ==
    /\ handlers[h].pc = "idle"
    /\ handlers' = [handlers EXCEPT ![h] = [kind |-> k, order |-> o, pc |-> "read", result |-> "none"]]

Finish(h, r) ==
    handlers' = [handlers EXCEPT ![h].pc = "done", ![h].result = r]

Goto(h, p) ==
    handlers' = [handlers EXCEPT ![h].pc = p]

At(h, k, p) == handlers[h].kind = k /\ handlers[h].pc = p

\* ---------------------------------------------------------- mark_order_paid
\* a guard that lets every order through
AlreadyPaid_never(o) == FALSE

\* the guard of the admin handler: an order that is already paid is refused
AlreadyPaid(o) == orders[o].status = "paid"

mark_order_paid_call(h, o) ==
    /\ Invoke(h, "mark_order_paid", o)
    /\ UNCHANGED <<syncVars, now, settings, orders, invoices, stripeTxn, tasks, services, ops, mails>>

\* find_one, then the 400 or the fall-through to the updates
mark_order_paid_read(h) ==
    /\ At(h, "mark_order_paid", "read")
    /\ IF AlreadyPaid(handlers[h].order)
          THEN Finish(h, "400_already_paid")
          ELSE Goto(h, "write")
    /\ UNCHANGED <<syncVars, now, settings, orders, invoices, stripeTxn, tasks, services, ops, mails>>

\* the two update_one calls, the payment-received mail, add_task
mark_order_paid_write(h) ==
    /\ At(h, "mark_order_paid", "write")
    /\ SetPaid(handlers[h].order)
    /\ mails' = IF get_configured_email_service
                   THEN Append(mails, [order |-> handlers[h].order, idx |-> 0, kind |-> "payment_received"])
                   ELSE mails
    /\ tasks' = Append(tasks, provision_task(handlers[h].order))
    /\ Finish(h, "ok")
    /\ UNCHANGED <<syncVars, now, settings, stripeTxn, services, ops>>

\* ------------------------------------------------------- capture_paypal_order
\* the gateway is asked first; only a confirmed payment reaches the order
capture_paypal_order_call(h, o) ==
    /\ handlers[h].pc = "idle"
    /\ \E confirmed \in BOOLEAN :
          handlers' = [handlers EXCEPT ![h] =
              IF confirmed
                 THEN [kind |-> "capture_paypal_order", order |-> o, pc |-> "read", result |-> "none"]
                 ELSE [kind |-> "capture_paypal_order", order |-> o, pc |-> "done", result |-> "500"]]
    /\ UNCHANGED <<syncVars, now, settings, orders, invoices, stripeTxn, tasks, services, ops, mails>>

\* find_one, then "if order and order['status'] != 'paid'"
capture_paypal_order_read(h) ==
    /\ At(h, "capture_paypal_order", "read")
    /\ IF orders[handlers[h].order].status # "paid"
          THEN Goto(h, "write")
          ELSE Finish(h, "500")
    /\ UNCHANGED <<syncVars, now, settings, orders, invoices, stripeTxn, tasks, services, ops, mails>>

\* update_one on order and invoice, add_task
capture_paypal_order_write(h) ==
    /\ At(h, "capture_paypal_order", "write")
    /\ SetPaid(handlers[h].order)
    /\ tasks' = Append(tasks, provision_task(handlers[h].order))
    /\ Finish(h, "ok")
    /\ UNCHANGED <<syncVars, now, settings, stripeTxn, services, ops, mails>>

\* ------------------------------------------------------- paypal_success
paypal_success_call(h, o) ==
    /\ handlers[h].pc = "idle"
    /\ \E approved \in BOOLEAN :
          handlers' = [handlers EXCEPT ![h] =
              IF approved
                 THEN [kind |-> "paypal_success", order |-> o, pc |-> "read", result |-> "none"]
                 ELSE [kind |-> "paypal_success", order |-> o, pc |-> "done", result |-> "payment_failed"]]
    /\ UNCHANGED <<syncVars, now, settings, orders, invoices, stripeTxn, tasks, services, ops, mails>>

\* find_one, then "if order:" -- the status of the order is not looked at
paypal_success_read(h) ==
    /\ At(h, "paypal_success", "read")
    /\ Goto(h, "write")
    /\ UNCHANGED <<syncVars, now, settings, orders, invoices, stripeTxn, tasks, services, ops, mails>>

paypal_success_write(h) ==
    /\ At(h, "paypal_success", "write")
    /\ SetPaid(handlers[h].order)
    /\ tasks' = Append(tasks, provision_task(handlers[h].order))
    /\ Finish(h, "ok")
    /\ UNCHANGED <<syncVars, now, settings, stripeTxn, services, ops, mails>>

\* ------------------------------------------------------- stripe_payment_success
\* the gateway is asked first; only a confirmed payment reaches the order
stripe_payment_success_call(h, o) ==
    /\ handlers[h].pc = "idle"
    /\ \E confirmed \in BOOLEAN :
          handlers' = [handlers EXCEPT ![h] =
              IF confirmed
                 THEN [kind |-> "stripe_payment_success", order |-> o, pc |-> "read", result |-> "none"]
                 ELSE [kind |-> "stripe_payment_success", order |-> o, pc |-> "done", result |-> "redirect"]]
    /\ UNCHANGED <<syncVars, now, settings, orders, invoices, stripeTxn, tasks, services, ops, mails>>

\* find_one, then "if order and order['status'] != 'paid'"
stripe_payment_success_read(h) ==
    /\ At(h, "stripe_payment_success", "read")
    /\ IF orders[handlers[h].order].status # "paid"
          THEN Goto(h, "write")
          ELSE Finish(h, "redirect")
    /\ UNCHANGED <<syncVars, now, settings, orders, invoices, stripeTxn, tasks, services, ops, mails>>

\* update_one on order and invoice, add_task
stripe_payment_success_write(h) ==
    /\ At(h, "stripe_payment_success", "write")
    /\ SetPaid(handlers[h].order)
    /\ tasks' = Append(tasks, provision_task(handlers[h].order))
    /\ Finish(h, "ok")
    /\ UNCHANGED <<syncVars, now, settings, stripeTxn, services, ops, mails>>

\* ------------------------------------------ check_stripe_payment_status
check_stripe_payment_status_call(h, o) ==
    /\ handlers[h].pc = "idle"
    /\ \E paid \in BOOLEAN :
          handlers' = [handlers EXCEPT ![h] =
              IF paid
                 THEN [kind |-> "check_stripe_payment_status", order |-> o, pc |-> "txn", result |-> "none"]
                 ELSE [kind |-> "check_stripe_payment_status", order |-> o, pc |-> "done", result |-> "unpaid"]]
    /\ UNCHANGED <<syncVars, now, settings, orders, invoices, stripeTxn, tasks, services, ops, mails>>

\* find_one on payment_transactions: only a transaction not yet completed goes on
check_stripe_payment_status_txn(h) ==
    /\ At(h, "check_stripe_payment_status", "txn")
    /\ IF stripeTxn[handlers[h].order] # "completed"
          THEN Goto(h, "read")
          ELSE Finish(h, "paid")
    /\ UNCHANGED <<syncVars, now, settings, orders, invoices, stripeTxn, tasks, services, ops, mails>>

\* the transaction is marked completed, then the order is read
check_stripe_payment_status_read(h) ==
    /\ At(h, "check_stripe_payment_status", "read")
    /\ stripeTxn' = [stripeTxn EXCEPT ![handlers[h].order] = "completed"]
    /\ IF orders[handlers[h].order].status # "paid"
          THEN Goto(h, "write")
          ELSE Finish(h, "paid")
    /\ UNCHANGED <<syncVars, now, settings, orders, invoices, tasks, services, ops, mails>>

check_stripe_payment_status_write(h) ==
    /\ At(h, "check_stripe_payment_status", "write")
    /\ SetPaid(handlers[h].order)
    /\ tasks' = Append(tasks, provision_task(handlers[h].order))
    /\ Finish(h, "paid")
    /\ UNCHANGED <<syncVars, now, settings, stripeTxn, services, ops, mails>>

\* ------------------------------------------------- create_square_payment
create_square_payment_call(h, o) ==
    /\ Invoke(h, "create_square_payment", o)
    /\ UNCHANGED <<syncVars, now, settings, orders, invoices, stripeTxn, tasks, services, ops, mails>>

\* find_one, then the 400 on a paid order; the charge comes after this check
create_square_payment_read(h) ==
    /\ At(h, "create_square_payment", "read")
    /\ IF orders[handlers[h].order].status = "paid"
          THEN Finish(h, "400_already_paid")
          ELSE Goto(h, "write")
    /\ UNCHANGED <<syncVars, now, settings, orders, invoices, stripeTxn, tasks, services, ops, mails>>

\* square.create_payment, and on COMPLETED the updates and add_task
create_square_payment_write(h) ==
    /\ At(h, "create_square_payment", "write")
    /\ \E completed \in BOOLEAN :
          IF completed
             THEN /\ SetPaid(handlers[h].order)
                  /\ tasks' = Append(tasks, provision_task(handlers[h].order))
                  /\ Finish(h, "ok")
             ELSE /\ Finish(h, "500")
                  /\ UNCHANGED <<orders, invoices, tasks>>
    /\ UNCHANGED <<syncVars, now, settings, stripeTxn, services, ops, mails>>

\* ------------------------------------------------------- check_blockonomics_payment_status
\* the gateway is asked first; only a confirmed payment reaches the order
check_blockonomics_payment_status_call(h, o) ==
    /\ handlers[h].pc = "idle"
    /\ \E confirmed \in BOOLEAN :
          handlers' = [handlers EXCEPT ![h] =
              IF confirmed
                 THEN [kind |-> "check_blockonomics_payment_status", order |-> o, pc |-> "read", result |-> "none"]
                 ELSE [kind |-> "check_blockonomics_payment_status", order |-> o, pc |-> "done", result |-> "pending"]]
    /\ UNCHANGED <<syncVars, now, settings, orders, invoices, stripeTxn, tasks, services, ops, mails>>

\* find_one, then "if order and order['status'] != 'paid'"
check_blockonomics_payment_status_read(h) ==
    /\ At(h, "check_blockonomics_payment_status", "read")
    /\ IF orders[handlers[h].order].status # "paid"
          THEN Goto(h, "write")
          ELSE Finish(h, "pending")
    /\ UNCHANGED <<syncVars, now, settings, orders, invoices, stripeTxn, tasks, services, ops, mails>>

\* update_one on order and invoice, add_task
check_blockonomics_payment_status_write(h) ==
    /\ At(h, "check_blockonomics_payment_status", "write")
    /\ SetPaid(handlers[h].order)
    /\ tasks' = Append(tasks, provision_task(handlers[h].order))
    /\ Finish(h, "ok")
    /\ UNCHANGED <<syncVars, now, settings, stripeTxn, services, ops, mails>>

\* ------------------------------------------------------- blockonomics_webhook
\* the gateway is asked first; only a confirmed payment reaches the order
blockonomics_webhook_call(h, o) ==
    /\ handlers[h].pc = "idle"
    /\ \E confirmed \in BOOLEAN :
          handlers' = [handlers EXCEPT ![h] =
              IF confirmed
                 THEN [kind |-> "blockonomics_webhook", order |-> o, pc |-> "read", result |-> "none"]
                 ELSE [kind |-> "blockonomics_webhook", order |-> o, pc |-> "done", result |-> "ok_unpaid"]]
    /\ UNCHANGED <<syncVars, now, settings, orders, invoices, stripeTxn, tasks, services, ops, mails>>

\* find_one, then "if order and order['status'] != 'paid'"
blockonomics_webhook_read(h) ==
    /\ At(h, "blockonomics_webhook", "read")
    /\ IF orders[handlers[h].order].status # "paid"
          THEN Goto(h, "write")
          ELSE Finish(h, "ok_unpaid")
    /\ UNCHANGED <<syncVars, now, settings, orders, invoices, stripeTxn, tasks, services, ops, mails>>

\* update_one on order and invoice, add_task
blockonomics_webhook_write(h) ==
    /\ At(h, "blockonomics_webhook", "write")
    /\ SetPaid(handlers[h].order)
    /\ tasks' = Append(tasks, provision_task(handlers[h].order))
    /\ Finish(h, "ok")
    /\ UNCHANGED <<syncVars, now, settings, stripeTxn, services, ops, mails>>

\* =================================================================== catalog
\* products_collection: reference data, not changed by provisioning.  The
\* products ending in _1 were set up for panel 1 of their family, an index the
\* configurations of SettingsSet no longer have.
ProductIds ==
    {"sub_xtream", "sub_xuione", "res_xtream", "res_xuione", "sub_xtream_1", "sub_xuione_1"}

product(p) ==
    CASE p = "sub_xtream" -> [panel_type |-> "xtream", panel_index |-> 0, account_type |-> "subscriber", reseller_credits |-> 0]
      [] p = "sub_xuione" -> [panel_type |-> "xuione", panel_index |-> 0, account_type |-> "subscriber", reseller_credits |-> 0]
      [] p = "res_xtream" -> [panel_type |-> "xtream", panel_index |-> 0, account_type |-> "reseller", reseller_credits |-> 5]
      [] p = "res_xuione" -> [panel_type |-> "xuione", panel_index |-> 0, account_type |-> "reseller", reseller_credits |-> 5]
      [] p = "sub_xtream_1" -> [panel_type |-> "xtream", panel_index |-> 1, account_type |-> "subscriber", reseller_credits |-> 0]
      [] p = "sub_xuione_1" -> [panel_type |-> "xuione", panel_index |-> 1, account_type |-> "subscriber", reseller_credits |-> 0]

\* OrderItemCreate: the line items create_order stores as the client sent
\* them.  An item names a catalog product, an id no product has ("gone"), or
\* a string that is no ObjectId ("invalid")
ItemSet ==
    [product : {"sub_xtream", "sub_xuione"}, account_type : {"subscriber"},
     term_months : 1..MaxTerm, renewal_service_id : 0..MaxSeed,
     action_type : {"create_new", "extend"}]
    \cup
    [product : {"res_xtream", "res_xuione"}, account_type : {"reseller"},
     term_months : 1..MaxTerm, renewal_service_id : {NoId},
     action_type : {"create_new"}]
    \cup
    [product : {"gone", "invalid", "sub_xtream_1", "sub_xuione_1"}, account_type : {"subscriber"},
     term_months : 1..MaxTerm, renewal_service_id : {NoId},
     action_type : {"create_new"}]

\* str_to_objectid raises on a string that is no ObjectId
str_to_objectid_raises(id) == id = "invalid"

\* products_collection.find_one: None for an id no product has
product_found(id) == id \in ProductIds

\* ============================================================ service store
ServiceIds == DOMAIN services

\* a lookup of the renewal target by id and status alone
find_renewal_xtream_any_owner(id, user) ==
    {s \in ServiceIds : s = id /\ services[s].status = "active"}

\* services_collection.find_one({_id, user_id, status: active}) of
\* provision_xtream_service: the explicit renewal target
find_renewal_xtream(id, user) ==
    {s \in ServiceIds : s = id /\ services[s].user = user /\ services[s].status = "active"}

\* the same lookup in provision_xuione_service, which also asks for panel_type xuione
find_renewal_xuione(id, user) ==
    {s \in ServiceIds : s = id /\ services[s].user = user /\ services[s].status = "active"
                        /\ services[s].panel_type = "xuione"}

\* the legacy lookup: any active service of the customer for the product
find_legacy(user, prod) ==
    {s \in ServiceIds : services[s].user = user /\ services[s].product = prod
                        /\ services[s].status = "active"}

\* term_months * 30
extend_days(item) == item.term_months * DaysPerMonth

\* an arithmetic that always adds to the stored expiry
new_expiry_from_stored(current_expiry, today, days) == current_expiry + days

\* the renewal arithmetic: from now if the expiry read is past, else from it
new_expiry(current_expiry, today, days) ==
    IF current_expiry < today THEN today + days ELSE current_expiry + days

\* service_dict as first built: status pending, no expiry yet
service_dict(t, item, ptype, pidx) ==
    [user |-> tasks[t].user, order |-> tasks[t].order, product |-> item.product,
     account_type |-> item.account_type, status |-> "pending", expiry |-> NoDate,
     panel_type |-> ptype, panel_index |-> pidx, line |-> FALSE,
     credits |-> 0, addon |-> FALSE, error |-> NoErr, suspended_at |-> NoDate]

Op(t, kind, ptype, ok, target) ==
    [order |-> tasks[t].order, idx |-> tasks[t].i, op |-> kind, panel |-> ptype,
     ok |-> ok, target |-> target]

Mail(t, kind) == [order |-> tasks[t].order, idx |-> tasks[t].i, kind |-> kind]

\* the loop of provision_order_services moves to the next item, or ends
Advance(t) ==
    [tasks EXCEPT ![t].i = @ + 1,
                  ![t].pc = IF tasks[t].i + 1 > tasks[t].n THEN "done" ELSE "loop",
                  ![t].existing = NoId,
                  ![t].snap = NoDate, ![t].expiry = NoDate]

\* the line item in hand
item_of(t) == tasks[t].items[tasks[t].i]


\* the product's panel index taken as it stands
panel_index_of_unchecked(prod, panels) == product(prod).panel_index

\* a panel index the configuration does not have falls back to panel 0
panel_index_of(prod, panels) ==
    IF product(prod).panel_index >= panels THEN 0 ELSE product(prod).panel_index

\* ================================================= provision_order_services
\* the task starts: get_settings, get_configured_email_service
provision_order_services_start(t) ==
    /\ tasks[t].pc = "queued"
    /\ tasks' = [tasks EXCEPT ![t].pc = "loop", ![t].i = 1]
    /\ UNCHANGED <<syncVars, now, settings, orders, invoices, stripeTxn, handlers, services, ops, mails>>

\* provision_xtream_service up to its services_collection.find_one
xtream_resolve(t, item) ==
    IF settings.xtream = 0
       THEN tasks' = [Advance(t) EXCEPT ![t].items = Append(@, item)]
       ELSE IF item.account_type = "subscriber"
               THEN LET found == IF item.renewal_service_id # NoId
                                    THEN find_renewal_xtream(item.renewal_service_id, tasks[t].user)
                                    ELSE IF item.action_type = "extend"
                                            THEN find_legacy(tasks[t].user, item.product)
                                            ELSE {}
                    IN \E e \in (IF found = {} THEN {NoId} ELSE found) :
                          tasks' = [tasks EXCEPT
                              ![t].pc = "xtream_call", ![t].items = Append(@, item),
                              ![t].pidx = panel_index_of(item.product, settings.xtream),
                              ![t].existing = e,
                              ![t].snap = IF e = NoId THEN NoDate ELSE services[e].expiry,
                              ![t].expiry = now + extend_days(item)]
               \* everything below the subscriber test of line 2803, the reseller
               \* branch included, is nested under it: a reseller item does nothing
               ELSE tasks' = [Advance(t) EXCEPT ![t].items = Append(@, item)]

\* provision_xuione_service up to its services_collection.find_one
xuione_resolve(t, item) ==
    IF settings.xuione = 0
       THEN tasks' = [Advance(t) EXCEPT ![t].items = Append(@, item)]
       ELSE LET found == IF item.account_type = "subscriber" /\ item.renewal_service_id # NoId
                            THEN find_renewal_xuione(item.renewal_service_id, tasks[t].user)
                            ELSE {}
            IN \E e \in (IF found = {} THEN {NoId} ELSE found) :
                  tasks' = [tasks EXCEPT
                      ![t].pc = IF item.account_type # "subscriber" THEN "xuione_reseller"
                                ELSE IF e # NoId THEN "xuione_extend" ELSE "xuione_call",
                      ![t].items = Append(@, item),
                      ![t].pidx = panel_index_of(item.product, settings.xuione),
                      ![t].existing = e,
                      ![t].snap = IF e = NoId THEN NoDate ELSE services[e].expiry,
                      ![t].expiry = now + extend_days(item)]

\* one turn of "for item in order['items']": the product is looked up and the
\* item is routed to its panel family
provision_order_services_item(t) ==
    /\ tasks[t].pc = "loop"
    /\ \E item \in ItemSet :
          IF str_to_objectid_raises(item.product)
             \* HTTPException inside the loop, caught by the try around the loop
             THEN tasks' = [tasks EXCEPT ![t].pc = "done", ![t].items = Append(@, item)]
             ELSE IF ~product_found(item.product)
                     THEN tasks' = [Advance(t) EXCEPT ![t].items = Append(@, item)]
                     ELSE IF product(item.product).panel_type = "xuione"
                             THEN xuione_resolve(t, item)
                             ELSE xtream_resolve(t, item)
    /\ UNCHANGED <<syncVars, now, settings, orders, invoices, stripeTxn, handlers, services, ops, mails>>

\* ================================================== provision_xtream_service
\* the renewal branch: extend_subscriber, then the expiry is moved and the
\* renewal mail sent whatever extend_subscriber answered
xtream_renew(t, e) ==
    \E ok \in BOOLEAN :
       /\ ops' = Append(ops, Op(t, "extend_subscriber", "xtream", ok, e))
       /\ IF tasks[t].snap = NullDate
             \* None < datetime raises; the except of the function swallows it
             THEN UNCHANGED <<services, mails>>
             ELSE /\ services' = [services EXCEPT
                        ![e].expiry = new_expiry(tasks[t].snap, now, extend_days(item_of(t))),
                        ![e].status = "active"]
                  /\ mails' = IF get_configured_email_service
                                 THEN Append(mails, Mail(t, "service_renewed"))
                                 ELSE mails

\* a branch that inserts service_dict as first built, whatever the panel answered
xtream_new_record_as_built(t, ok) ==
    service_dict(t, item_of(t), "none", tasks[t].pidx)

\* the record the new-subscriber branch inserts: made active only on success,
\* and inserted as it stands either way
xtream_new_record(t, ok) ==
    LET d == service_dict(t, item_of(t), "none", tasks[t].pidx)
    IN IF ok THEN [d EXCEPT !.status = "active", !.expiry = tasks[t].expiry, !.line = TRUE]
             ELSE d

\* the mails of the new-subscriber branch: sent under "if email_service",
\* which follows the insert and does not look at the result
xtream_new_mails(t, ok) ==
    IF get_configured_email_service
       THEN mails \o <<Mail(t, "service_activated"), Mail(t, "telegram_service_activated")>>
       ELSE mails

\* the new-subscriber branch: create_subscriber_via_form, insert_one, mails.
\* Without an email service the else branch inserts the same document again,
\* which the store refuses (duplicate _id): the first insert is what stays.
xtream_create(t) ==
    \E ok \in BOOLEAN :
       /\ ops' = Append(ops, Op(t, "create_subscriber", "xtream", ok, NoId))
       /\ services' = Append(services, xtream_new_record(t, ok))
       /\ mails' = xtream_new_mails(t, ok)

provision_xtream_service(t) ==
    /\ tasks[t].pc = "xtream_call"
    /\ IF tasks[t].existing # NoId
          THEN xtream_renew(t, tasks[t].existing)
          ELSE xtream_create(t)
    /\ tasks' = Advance(t)
    /\ UNCHANGED <<syncVars, now, settings, orders, invoices, stripeTxn, handlers>>

\* ================================================== provision_xuione_service
XuiCreateOutcomes ==
    {"login_failed", "success", "success_no_id", "invalid_package", "api_error",
     "html", "not_json", "http_error", "exception"}

xuione_error(outcome) ==
    CASE outcome = "login_failed" -> "Login failed"
      [] outcome = "invalid_package" -> "Invalid package/bouquets configuration"
      [] outcome = "api_error" -> "panel message"
      [] outcome = "html" -> "API authentication failed - check API key"
      [] outcome = "not_json" -> "Invalid API response"
      [] outcome = "http_error" -> "HTTP status"
      [] outcome = "exception" -> "exception text"
      [] OTHER -> NoErr

xuione_failed_record(t, err) ==
    [service_dict(t, item_of(t), "xuione", tasks[t].pidx) EXCEPT
        !.status = "failed", !.error = err]

xuione_new_record(t, outcome) ==
    IF outcome \in {"success", "success_no_id"}
       THEN [service_dict(t, item_of(t), "xuione", tasks[t].pidx) EXCEPT
                !.status = "active", !.expiry = tasks[t].expiry,
                !.line = (outcome = "success")]
       ELSE xuione_failed_record(t, xuione_error(outcome))

\* the activation mail and chat message: only for a record that is active
xuione_new_mails(t, rec) ==
    IF rec.status = "active" /\ get_configured_email_service
       THEN mails \o <<Mail(t, "service_activated"), Mail(t, "telegram_service_activated")>>
       ELSE mails

\* new subscriber: api key, login, create_line, insert_one, mails
provision_xuione_service(t) ==
    /\ tasks[t].pc = "xuione_call"
    /\ IF ~settings.api_key
          THEN /\ services' = Append(services, xuione_failed_record(t, "API key not configured"))
               /\ UNCHANGED <<ops, mails>>
          ELSE \E outcome \in XuiCreateOutcomes :
                  /\ ops' = IF outcome = "login_failed" THEN ops
                            ELSE Append(ops, Op(t, "create_subscriber", "xuione",
                                                outcome \in {"success", "success_no_id"}, NoId))
                  /\ services' = Append(services, xuione_new_record(t, outcome))
                  /\ mails' = xuione_new_mails(t, xuione_new_record(t, outcome))
    /\ tasks' = Advance(t)
    /\ UNCHANGED <<syncVars, now, settings, orders, invoices, stripeTxn, handlers>>

XuiExtendOutcomes ==
    {"login_failed", "success", "failed", "not_json", "http_error", "exception"}

\* renewal on XuiOne: login, line id, edit_line; the expiry moves and the
\* renewal mail goes out only on STATUS_SUCCESS
extend_xuione_line(t) ==
    /\ tasks[t].pc = "xuione_extend"
    /\ LET e == tasks[t].existing
       IN \E outcome \in XuiExtendOutcomes :
             IF outcome = "login_failed" \/ ~services[e].line
                THEN UNCHANGED <<ops, services, mails>>
                ELSE /\ ops' = Append(ops, Op(t, "extend_subscriber", "xuione", outcome = "success", e))
                     /\ IF outcome = "success"
                           THEN /\ services' = [services EXCEPT
                                      ![e].expiry = new_expiry(tasks[t].snap, now, extend_days(item_of(t))),
                                      ![e].status = "active"]
                                /\ mails' = IF get_configured_email_service
                                               THEN Append(mails, Mail(t, "service_renewed"))
                                               ELSE mails
                           ELSE UNCHANGED <<services, mails>>
    /\ tasks' = Advance(t)
    /\ UNCHANGED <<syncVars, now, settings, orders, invoices, stripeTxn, handlers>>

XuiResellerOutcomes ==
    {"login_failed", "success", "api_error", "not_json", "http_error", "exception"}

XuiCreditOutcomes == {"ok", "rejected", "exception"}

\* the reseller branch: create_user, then adjust_credits for a positive grant
xuione_reseller_record(t, outcome, credit) ==
    IF outcome = "success" /\ credit # "exception"
       THEN [service_dict(t, item_of(t), "xuione", tasks[t].pidx) EXCEPT
                !.status = "active", !.expiry = NullDate, !.line = TRUE,
                !.credits = product(item_of(t).product).reseller_credits]
       ELSE xuione_failed_record(t, IF outcome = "success" THEN "exception text"
                                                            ELSE xuione_error(outcome))

xuione_reseller_ops(t, outcome, credit) ==
    IF outcome = "login_failed" THEN <<>>
    ELSE IF outcome = "success" /\ product(item_of(t).product).reseller_credits > 0
            THEN <<Op(t, "create_reseller", "xuione", TRUE, NoId),
                   Op(t, "add_credits", "xuione", credit = "ok", NoId)>>
            ELSE <<Op(t, "create_reseller", "xuione", outcome = "success", NoId)>>

provision_xuione_reseller(t) ==
    /\ tasks[t].pc = "xuione_reseller"
    /\ IF ~settings.api_key
          THEN /\ services' = Append(services, xuione_failed_record(t, "API key not configured"))
               /\ UNCHANGED ops
          ELSE \E outcome \in XuiResellerOutcomes, credit \in XuiCreditOutcomes :
                  /\ ops' = ops \o xuione_reseller_ops(t, outcome, credit)
                  /\ services' = Append(services, xuione_reseller_record(t, outcome, credit))
    /\ tasks' = Advance(t)
    /\ UNCHANGED <<syncVars, now, settings, orders, invoices, stripeTxn, handlers, mails>>

\* ------------------------------------------------------------------- clock
Tick ==
    /\ now < MaxNow
    /\ now' = now + 1
    /\ UNCHANGED <<syncVars, settings, orders, invoices, stripeTxn, handlers, tasks, services, ops, mails>>

\* ------------------------------------------- provisioning specifications
SeedExpiry == 2
MaxSyncs == 2

\* services already in the store: active subscriber accounts of either family
SeedSet ==
    [user : Users, order : {NoId}, product : {"sub_xtream"}, account_type : {"subscriber"},
     status : {"active"}, expiry : {SeedExpiry}, panel_type : {"none"}, panel_index : {0},
     line : {TRUE}, credits : {0}, addon : {FALSE}, error : {NoErr},
     suspended_at : {NoDate}]
    \cup
    [user : Users, order : {NoId}, product : {"sub_xuione"}, account_type : {"subscriber"},
     status : {"active"}, expiry : {SeedExpiry}, panel_type : {"xuione"}, panel_index : {0},
     line : {TRUE}, credits : {0}, addon : {FALSE}, error : {NoErr},
     suspended_at : {NoDate}]

Seeds == UNION {[1..k -> SeedSet] : k \in 0..MaxSeed}

\* the queue of paid orders: up to MaxTasks orders with MaxItems line items
\* between them
RECURSIVE Sum(_)
Sum(q) == IF q = <<>> THEN 0 ELSE q[1] + Sum(Tail(q))

OrderShapes ==
    {q \in UNION {[1..k -> 1..MaxItems] : k \in 1..MaxTasks} : Sum(q) <= MaxItems}

\* =============================================================== panel mirror
\* imported_users_collection mirrors the accounts the panels show.  Each family
\* has its panels at indexes 0 .. count-1; remote[f] is what panel 0 of family
\* f shows now.
Usernames == {"a"}
AccountTypes == {"subscriber", "reseller"}
Families == {"xtream", "xuione"}
Accounts == [username : Usernames, account_type : AccountTypes]

\* panel.get("name"): the configured name of a panel
panel_name(f, i) == <<f, i>>

\* the names of the panels a family has configured
active_panel_names(f) ==
    {panel_name(f, i) : i \in 0..((IF f = "xtream" THEN settings.xtream ELSE settings.xuione) - 1)}

\* the usernames of one account type in a fetched list
names_of(list, atype) == {a.username : a \in {x \in list : x.account_type = atype}}

\* the find_one of the sync loops: username, panel_index and account_type,
\* and the family where the query names it ("any" where it does not)
sync_match(r, q) ==
    /\ r.username = q.username
    /\ r.panel_index = q.panel_index
    /\ r.account_type = q.account_type
    /\ (q.panel_type = "any" \/ r.panel_type = q.panel_type)

\* user_doc / reseller_doc as inserted: a doc without panel_type leaves the
\* field absent ("none")
new_imported_user(doc, u, atype) ==
    [panel_type |-> doc.panel_type, panel_index |-> doc.panel_index,
     panel_name |-> doc.panel_name, username |-> u, account_type |-> atype]

\* update_one({_id}, {$set: doc}): the fields of the doc overwrite the record
set_imported_user(e, doc) ==
    [e EXCEPT !.panel_index = doc.panel_index, !.panel_name = doc.panel_name,
              !.panel_type = IF doc.panel_type = "none" THEN e.panel_type ELSE doc.panel_type]

\* the loop over a fetched list: update the record found, insert when none is.
\* find_one returns one of the matching records.
RECURSIVE upsert_all(_, _, _, _, _)
upsert_all(acc, names, ptype, doc, atype) ==
    IF names = {} THEN acc
    ELSE LET u == CHOOSE x \in names : TRUE
             q == [username |-> u, panel_index |-> doc.panel_index,
                   account_type |-> atype, panel_type |-> ptype]
             found == {r \in BagToSet(acc.store) : sync_match(r, q)}
         IN IF found = {}
               THEN upsert_all([store |-> acc.store (+) SetToBag({new_imported_user(doc, u, atype)}),
                                synced |-> acc.synced + 1, updated |-> acc.updated],
                               names \ {u}, ptype, doc, atype)
               ELSE LET e == CHOOSE r \in found : TRUE
                    IN upsert_all([store |-> (acc.store (-) SetToBag({e}))
                                                (+) SetToBag({set_imported_user(e, doc)}),
                                   synced |-> acc.synced, updated |-> acc.updated + 1],
                                  names \ {u}, ptype, doc, atype)

\* delete_many on the records of a set
delete_many(store, gone) ==
    [r \in {x \in BagToSet(store) : x \notin gone} |-> store[r]]

\* the stale records of one account type: same panel_index (and family where
\* the query names it), username not in the fetched list
stale_records(store, ptype, i, atype, names) ==
    {r \in BagToSet(store) : /\ r.panel_index = i
                             /\ r.account_type = atype
                             /\ (ptype = "any" \/ r.panel_type = ptype)
                             /\ r.username \notin names}

\* the result of the last sync run: its operation, counters and fetch outcomes,
\* whether the panels are still as that run saw them, and the number of runs so far
NoReport ==
    [op |-> "none", family |-> "none", synced |-> 0, updated |-> 0, removed |-> 0,
     users_ok |-> FALSE, resellers_ok |-> FALSE, fresh |-> FALSE, run |-> 0]

\* one panel synced with stale-record cleanup: the body shared by
\* sync_users_from_panel (no family in its queries and docs) and
\* sync_xuione_users (family xuione in both)
sync_one_panel(op, f, i, ptype, doc_ptype) ==
    \E users_ok, resellers_ok \in BOOLEAN :
       LET subs == IF users_ok THEN names_of(remote[f], "subscriber") ELSE {}
           res == IF resellers_ok THEN names_of(remote[f], "reseller") ELSE {}
           doc == [panel_type |-> doc_ptype, panel_index |-> i, panel_name |-> panel_name(f, i)]
           s1 == upsert_all([store |-> imported, synced |-> 0, updated |-> 0],
                            subs, ptype, doc, "subscriber")
           s2 == upsert_all(s1, res, ptype, doc, "reseller")
           \* "if subscriber_usernames:" guards the subscriber cleanup only
           s3 == IF subs # {}
                    THEN delete_many(s2.store, stale_records(s2.store, ptype, i, "subscriber", subs))
                    ELSE s2.store
           s4 == delete_many(s3, stale_records(s3, ptype, i, "reseller", res))
       IN /\ imported' = s4
          /\ report' = [op |-> op, family |-> f, synced |-> s2.synced, updated |-> s2.updated,
                        removed |-> BagCardinality(s2.store) - BagCardinality(s4),
                        users_ok |-> users_ok, resellers_ok |-> resellers_ok, fresh |-> TRUE,
                        run |-> report.run + 1]

sync_users_from_panel(i) ==
    /\ i < settings.xtream
    /\ report.run < MaxSyncs
    /\ sync_one_panel("sync_users_from_panel", "xtream", i, "any", "none")
    /\ UNCHANGED <<coreVars, remote>>

sync_xuione_users(i) ==
    /\ i < settings.xuione
    /\ report.run < MaxSyncs
    /\ sync_one_panel("sync_xuione_users", "xuione", i, "xuione", "xuione")
    /\ UNCHANGED <<coreVars, remote>>

\* one panel of the sync-all loops: upserts only, queries and docs carry the
\* family; a family with no panel configured contributes nothing
sync_all_panel(acc, f, configured, users_ok, resellers_ok) ==
    IF configured = 0 THEN acc
    ELSE LET doc == [panel_type |-> f, panel_index |-> 0, panel_name |-> panel_name(f, 0)]
             s1 == upsert_all(acc, IF users_ok THEN names_of(remote[f], "subscriber") ELSE {},
                              f, doc, "subscriber")
         IN upsert_all(s1, IF resellers_ok THEN names_of(remote[f], "reseller") ELSE {},
                       f, doc, "reseller")

\* the records sync-all deletes at its end: those of panels that are no
\* longer configured, per family, and family-less ones whose panel name is unknown
removed_panel_records(store) ==
    {r \in BagToSet(store) :
        \/ r.panel_type \in Families /\ r.panel_name \notin active_panel_names(r.panel_type)
        \/ /\ r.panel_type = "none"
           /\ r.panel_name \notin (active_panel_names("xtream") \cup active_panel_names("xuione"))}

sync_all_users_from_all_panels ==
    /\ report.run < MaxSyncs
    /\ \E xu, xr, uu, ur \in BOOLEAN :
          LET s1 == sync_all_panel([store |-> imported, synced |-> 0, updated |-> 0],
                                   "xtream", settings.xtream, xu, xr)
              s2 == sync_all_panel(s1, "xuione", settings.xuione, uu, ur)
              s3 == delete_many(s2.store, removed_panel_records(s2.store))
          IN /\ imported' = s3
             /\ report' = [op |-> "sync_all_users_from_all_panels", family |-> "all",
                           synced |-> s2.synced, updated |-> s2.updated,
                           removed |-> BagCardinality(s2.store) - BagCardinality(s3),
                           users_ok |-> xu /\ uu, resellers_ok |-> xr /\ ur, fresh |-> TRUE,
                           run |-> report.run + 1]
    /\ UNCHANGED <<coreVars, remote>>

\* an account appears on or disappears from a panel
RemoteChange ==
    /\ \E f \in Families, a \in Accounts :
          remote' = [remote EXCEPT ![f] = IF a \in @ THEN @ \ {a} ELSE @ \cup {a}]
    /\ report' = [report EXCEPT !.fresh = FALSE]
    /\ UNCHANGED <<coreVars, imported>>

\* no sync has run: the state of the mirror in the specifications of the
\* order pipeline
NoSync ==
    /\ imported = EmptyBag
    /\ remote = [f \in Families |-> {}]
    /\ report = NoReport

InitSync ==
    /\ now = 0
    /\ settings = [smtp |-> FALSE, xtream |-> 1, xuione |-> 1, api_key |-> TRUE]
    /\ orders = <<>>
    /\ invoices = <<>>
    /\ stripeTxn = <<>>
    /\ handlers = [h \in Slots |-> IdleHandler]
    /\ tasks = <<>>
    /\ services = <<>>
    /\ ops = <<>>
    /\ mails = <<>>
    /\ imported = EmptyBag
    /\ remote \in [Families -> SUBSET Accounts]
    /\ report = NoReport

NextSync ==
    \/ sync_users_from_panel(0)
    \/ sync_xuione_users(0)
    \/ sync_all_users_from_all_panels
    \/ RemoteChange

SpecSync == InitSync /\ [][NextSync]_vars

\* the panel and mail configurations get_settings can return
SettingsSet ==
    [smtp : BOOLEAN, xtream : {1}, xuione : {1}, api_key : BOOLEAN]
    \cup [smtp : {TRUE}, xtream : {0}, xuione : {0}, api_key : {TRUE}]

\* paid orders of customer u1, each with its provisioning task on the queue
InitProv ==
    /\ now = 1
    /\ settings \in SettingsSet
    /\ \E q \in OrderShapes :
          /\ orders = [o \in DOMAIN q |-> [user |-> "u1", n |-> q[o], status |-> "paid"]]
          /\ invoices = [o \in DOMAIN q |-> "paid"]
          /\ stripeTxn = [o \in DOMAIN q |-> "pending"]
          /\ tasks = [o \in DOMAIN q |->
                        [order |-> o, user |-> "u1", n |-> q[o],
                         pc |-> "queued", i |-> 0, items |-> <<>>, pidx |-> 0,
                         existing |-> NoId, snap |-> NoDate, expiry |-> NoDate]]
    /\ handlers = [h \in Slots |-> IdleHandler]
    /\ services \in Seeds
    /\ ops = <<>>
    /\ mails = <<>>
    /\ NoSync

\* one paid order of customer u1 with one line item
InitItem ==
    /\ InitProv
    /\ DOMAIN tasks = {1}
    /\ tasks[1].n = 1

Running(t) == tasks[t].pc \notin {"queued", "done"}

\* a task starts when no other task is under way
start_in_turn(t) ==
    /\ \A u \in DOMAIN tasks : ~Running(u)
    /\ provision_order_services_start(t)

\* the tasks run one after the other
NextProv ==
    \/ Tick
    \/ \E t \in DOMAIN tasks : start_in_turn(t)
    \/ \E t \in DOMAIN tasks : provision_order_services_item(t)
    \/ \E t \in DOMAIN tasks : provision_xtream_service(t)
    \/ \E t \in DOMAIN tasks : provision_xuione_service(t)
    \/ \E t \in DOMAIN tasks : extend_xuione_line(t)
    \/ \E t \in DOMAIN tasks : provision_xuione_reseller(t)

SpecProv == InitProv /\ [][NextProv]_vars

SpecItem == InitItem /\ [][NextProv]_vars

\* the tasks of different orders interleave at their awaits
NextRace ==
    \/ Tick
    \/ \E t \in DOMAIN tasks : provision_order_services_start(t)
    \/ \E t \in DOMAIN tasks : provision_order_services_item(t)
    \/ \E t \in DOMAIN tasks : provision_xtream_service(t)
    \/ \E t \in DOMAIN tasks : provision_xuione_service(t)
    \/ \E t \in DOMAIN tasks : extend_xuione_line(t)
    \/ \E t \in DOMAIN tasks : provision_xuione_reseller(t)

SpecRace == InitProv /\ [][NextRace]_vars

\* ------------------------------------------------ payment specification
\* one pending order per id, its invoice unpaid, a stripe transaction open
InitPay ==
    /\ now = 1
    /\ settings \in [smtp : BOOLEAN, xtream : {1}, xuione : {1}, api_key : {TRUE}]
    /\ orders \in [OrderIds -> [user : {"u1"}, n : {1}, status : {"pending"}]]
    /\ invoices = [o \in OrderIds |-> "unpaid"]
    /\ stripeTxn = [o \in OrderIds |-> "pending"]
    /\ handlers = [h \in Slots |-> IdleHandler]
    /\ tasks = <<>>
    /\ services = <<>>
    /\ ops = <<>>
    /\ mails = <<>>
    /\ NoSync

NextPay ==
    \E h \in Slots :
        \/ \E o \in OrderIds : mark_order_paid_call(h, o)
        \/ mark_order_paid_read(h)
        \/ mark_order_paid_write(h)
        \/ \E o \in OrderIds : capture_paypal_order_call(h, o)
        \/ capture_paypal_order_read(h)
        \/ capture_paypal_order_write(h)
        \/ \E o \in OrderIds : paypal_success_call(h, o)
        \/ paypal_success_read(h)
        \/ paypal_success_write(h)
        \/ \E o \in OrderIds : stripe_payment_success_call(h, o)
        \/ stripe_payment_success_read(h)
        \/ stripe_payment_success_write(h)
        \/ \E o \in OrderIds : check_stripe_payment_status_call(h, o)
        \/ check_stripe_payment_status_txn(h)
        \/ check_stripe_payment_status_read(h)
        \/ check_stripe_payment_status_write(h)
        \/ \E o \in OrderIds : create_square_payment_call(h, o)
        \/ create_square_payment_read(h)
        \/ create_square_payment_write(h)
        \/ \E o \in OrderIds : check_blockonomics_payment_status_call(h, o)
        \/ check_blockonomics_payment_status_read(h)
        \/ check_blockonomics_payment_status_write(h)
        \/ \E o \in OrderIds : blockonomics_webhook_call(h, o)
        \/ blockonomics_webhook_read(h)
        \/ blockonomics_webhook_write(h)

SpecPay == InitPay /\ [][NextPay]_vars

\* ====================================================== payment properties
\* C1: a mark_order_paid invocation that finds the order already paid ends
\* with the 400 "Order already paid", leaves the order, its invoice and the
\* task queue as they were, and so schedules no provisioning.
C1_RemarkRejected ==
    [][\A h \in Slots :
          (/\ At(h, "mark_order_paid", "read")
           /\ handlers'[h] # handlers[h]
           /\ orders[handlers[h].order].status = "paid")
          => (/\ handlers'[h].pc = "done"
              /\ handlers'[h].result = "400_already_paid"
              /\ orders' = orders
              /\ invoices' = invoices
              /\ tasks' = tasks)]_vars

\* two invocations of mark_order_paid on one order have both returned: one
\* marked it paid, the other was refused, and one task is on the queue
C1_TwiceInvoked ==
    \E h1, h2 \in Slots :
       /\ h1 # h2
       /\ handlers[h1].kind = "mark_order_paid"
       /\ handlers[h2].kind = "mark_order_paid"
       /\ handlers[h1].order = handlers[h2].order
       /\ handlers[h1].pc = "done" /\ handlers[h1].result = "ok"
       /\ handlers[h2].pc = "done" /\ handlers[h2].result = "400_already_paid"
       /\ Len(tasks) = 1

\* C2: whatever payment-confirmation handlers run for an order and however
\* they interleave, provision_order_services is scheduled at most once for it.
C2_ScheduledAtMostOnce ==
    \A o \in OrderIds :
       Cardinality({k \in DOMAIN tasks : tasks[k].order = o}) <= 1

\* ================================================= provisioning properties
\* the task of an order
task_of(o) == CHOOSE t \in DOMAIN tasks : tasks[t].order = o

\* both panel families are configured and the XuiOne api key is set
PanelsConfigured == settings.xtream > 0 /\ settings.xuione > 0 /\ settings.api_key

\* the adapter operations issued for line item k of order o
OpsOf(o, k) == {j \in DOMAIN ops : ops[j].order = o /\ ops[j].idx = k}

\* C3: a finished run of provision_order_services over an order of N line
\* items, each naming a catalog product, with the panels configured, has
\* issued exactly one adapter operation for each of the N items.
C3_OneOpPerItem ==
    \A t \in DOMAIN tasks :
       (/\ tasks[t].pc = "done"
        /\ PanelsConfigured
        /\ Len(tasks[t].items) = tasks[t].n
        /\ \A k \in DOMAIN tasks[t].items : product_found(tasks[t].items[k].product))
       => \A k \in 1..tasks[t].n : Cardinality(OpsOf(tasks[t].order, k)) = 1

\* C4: a finished run has reached every line item of its order: no failure
\* on item i keeps item i+1 from being attempted.
C4_EveryItemAttempted ==
    \A t \in DOMAIN tasks :
       tasks[t].pc = "done" => Len(tasks[t].items) = tasks[t].n

\* C5: for every adapter operation that reported failure there is a Service
\* record of the same order and product with status failed and the error kept.
C5_FailureLeavesFailedRecord ==
    \A j \in DOMAIN ops :
       ~ops[j].ok =>
          \E s \in DOMAIN services :
             /\ services[s].order = ops[j].order
             /\ services[s].product = tasks[task_of(ops[j].order)].items[ops[j].idx].product
             /\ services[s].status = "failed"
             /\ services[s].error # NoErr

\* C6: every activation mail and activation chat message sent for a line item
\* has a successful remote create call for that item.
C6_ActivationOnlyOnSuccess ==
    \A m \in DOMAIN mails :
       mails[m].kind \in {"service_activated", "telegram_service_activated"} =>
          \E j \in OpsOf(mails[m].order, mails[m].idx) :
             ops[j].op = "create_subscriber" /\ ops[j].ok

\* a renewal step of task t: the call on a resolved renewal target is made
RenewalStep(t) ==
    /\ tasks[t].pc \in {"xtream_call", "xuione_extend"}
    /\ tasks[t].existing # NoId
    /\ tasks'[t] # tasks[t]

\* C7: when a renewal of D = term_months * 30 days is applied at time now to
\* a Service whose stored expiry is E, the stored expiry afterwards is E + D
\* if E is in the future and now + D if E is in the past.
C7_RenewalArithmetic ==
    [][\A t \in DOMAIN tasks :
          (RenewalStep(t) /\ services' # services)
          => LET e == tasks[t].existing
                 E == services[e].expiry
                 D == item_of(t).term_months * DaysPerMonth
             IN /\ (E > now => services'[e].expiry = E + D)
                /\ (E < now => services'[e].expiry = now + D)]_vars

\* an expired Service has been renewed: its expiry counts from the day of
\* the renewal
C7_ExpiredRenewed ==
    \E j \in DOMAIN ops :
       /\ ops[j].op = "extend_subscriber"
       /\ ops[j].target \in DOMAIN services
       /\ now > SeedExpiry
       /\ \E m \in 1..MaxTerm :
             services[ops[j].target].expiry = now + m * DaysPerMonth

\* the renewal of operation j moved the stored expiry
Applied(j) ==
    /\ ops[j].op = "extend_subscriber"
    /\ ops[j].panel = "xtream" \/ ops[j].ok

\* C8: two renewals applied to the same Service, each of at least one month,
\* have together moved its expiry by at least two months: no update is lost.
C8_NoLostUpdate ==
    \A j, k \in DOMAIN ops :
       (/\ j # k
        /\ Applied(j) /\ Applied(k)
        /\ ops[j].target = ops[k].target
        /\ services[ops[j].target].order = NoId)
       => services[ops[j].target].expiry >= SeedExpiry + 2 * DaysPerMonth

\* C9: with the panels configured, the step that provisions a subscriber item
\* whose renewal_service_id names an active Service of the ordering customer
\* creates no Service, changes no Service other than the named one, and
\* directs its adapter operation at the named one.
C9_ExplicitTargetOnly ==
    [][\A t \in DOMAIN tasks :
          (/\ tasks[t].pc \in {"xtream_call", "xuione_call", "xuione_extend"}
           /\ tasks'[t] # tasks[t]
           /\ PanelsConfigured
           /\ item_of(t).renewal_service_id \in DOMAIN services
           /\ services[item_of(t).renewal_service_id].user = tasks[t].user
           /\ services[item_of(t).renewal_service_id].status = "active")
          => LET r == item_of(t).renewal_service_id
             IN /\ DOMAIN services' = DOMAIN services
                /\ \A s \in DOMAIN services : s # r => services'[s] = services[s]
                /\ \A j \in DOMAIN ops' : j \notin DOMAIN ops => ops'[j].target = r]_vars

\* the active reseller records of a customer for a product
ActiveResellers(u, p) ==
    {s \in DOMAIN services : /\ services[s].user = u
                             /\ services[s].product = p
                             /\ services[s].account_type = "reseller"
                             /\ services[s].status = "active"}

\* C10: after two orders of one customer, each of one reseller item for the
\* same product, have been provisioned one after the other with no remote
\* call failing, there is exactly one active reseller record, it holds the
\* sum of both grants, and one remote reseller account was created.
C10_ResellerTopUp ==
    \A t1, t2 \in DOMAIN tasks :
       (/\ t1 # t2
        /\ tasks[t1].pc = "done" /\ tasks[t2].pc = "done"
        /\ tasks[t1].user = tasks[t2].user
        /\ Len(tasks[t1].items) = 1 /\ Len(tasks[t2].items) = 1
        /\ tasks[t1].items[1].account_type = "reseller"
        /\ tasks[t2].items[1].product = tasks[t1].items[1].product
        /\ PanelsConfigured
        /\ \A j \in DOMAIN ops : ops[j].ok
        /\ \A s \in DOMAIN services : services[s].status # "failed")
       => LET p == tasks[t1].items[1].product
              R == ActiveResellers(tasks[t1].user, p)
          IN /\ Cardinality(R) = 1
             /\ \A s \in R : services[s].credits = 2 * product(p).reseller_credits
             /\ Cardinality({j \in DOMAIN ops : ops[j].op = "create_reseller"}) = 1

\* C11: no reseller-creation or credit call is ever sent to a XuiOne panel.
C11_NoXuiOneResellerCall ==
    \A j \in DOMAIN ops :
       ops[j].panel = "xuione" => ops[j].op \notin {"create_reseller", "add_credits"}


\* ------------------------------------------------------------ claims, mirror
\* the stored records of panel 0 of family f for account a
records_of(f, a) ==
    [r \in {x \in BagToSet(imported) : /\ x.panel_name = panel_name(f, 0)
                                       /\ x.username = a.username
                                       /\ x.account_type = a.account_type} |-> imported[r]]

\* the families the last sync run covered
synced_families == IF report.family = "all" THEN Families ELSE {report.family}

\* C12: when a sync of a panel has completed (both lists fetched) and the panel
\* has not changed since, every account the panel shows has exactly one stored
\* record of that panel and no other record of that panel is stored.
C12_MirrorExact ==
    (report.fresh /\ report.users_ok /\ report.resellers_ok) =>
        \A f \in synced_families : \A a \in Accounts :
            BagCardinality(records_of(f, a)) = (IF a \in remote[f] THEN 1 ELSE 0)

\* C13: a sync run that follows a run of the same operation, with both lists
\* fetched in both runs and no change on the panels in between, reports zero
\* inserted, zero updated and zero removed records.
C13_SecondRunReportsNothing ==
    [][(/\ report'.run = report.run + 1
        /\ report.fresh
        /\ report'.op = report.op
        /\ report.users_ok /\ report.resellers_ok
        /\ report'.users_ok /\ report'.resellers_ok)
       => (report'.synced = 0 /\ report'.updated = 0 /\ report'.removed = 0)]_vars


\* ===================================================================== orders
\* amounts are in cents; OrderCreate.total, the coupon and use_credits come
\* from the request
Totals == {0, 1000}
NoCoupon == [coupon_type |-> "none", value |-> 0]
UnknownCoupon == [coupon_type |-> "unknown", value |-> 0]
Coupons ==
    {NoCoupon, UnknownCoupon}
    \cup [coupon_type : {"percentage"}, value : {50, 100, 150}]
    \cup [coupon_type : {"fixed"}, value : {500, 2000}]
UseCredits == {0, 500}

Min(a, b) == IF a <= b THEN a ELSE b
Max(a, b) == IF a >= b THEN a ELSE b

\* credit_service.get_balance looks the user up by the string id while the
\* users are stored under ObjectIds: no user is found and the balance is 0.0
get_balance(u) == 0

\* the discount validate_coupon returns for a valid coupon
validate_coupon(c, order_total) ==
    IF c.coupon_type = "percentage" THEN (order_total * c.value) \div 100
    ELSE IF c.coupon_type = "fixed" THEN Min(c.value, order_total)
    ELSE 0

\* order_dict of create_order
new_order(u, n, subtotal, c, use_credits) ==
    LET discount_amount == validate_coupon(c, subtotal)
        total_after_discount == subtotal - discount_amount
        credits_used == IF use_credits > 0
                           THEN Min(Min(use_credits, get_balance(u)), total_after_discount)
                           ELSE 0
    IN [user |-> u, n |-> n, status |-> "pending", subtotal |-> subtotal,
        discount_amount |-> discount_amount, credits_used |-> credits_used,
        total |-> Max(0, total_after_discount - credits_used)]

\* order_dict of create_manual_service
manual_order(u) ==
    [user |-> u, n |-> 1, status |-> "paid", subtotal |-> 0,
     discount_amount |-> 0, credits_used |-> 0, total |-> 0]

\* the coupon check, then the order and its invoice are inserted
create_order_call(h) ==
    /\ handlers[h].pc = "idle"
    /\ Len(orders) < MaxOrders
    /\ \E subtotal \in Totals, c \in Coupons, use_credits \in UseCredits :
          IF c = UnknownCoupon
             THEN /\ handlers' = [handlers EXCEPT ![h] =
                        [kind |-> "create_order", order |-> NoId, pc |-> "done", result |-> "400"]]
                  /\ UNCHANGED <<orders, invoices, stripeTxn>>
             ELSE LET order_dict == new_order("u1", 1, subtotal, c, use_credits)
                  IN /\ orders' = Append(orders, order_dict)
                     /\ invoices' = Append(invoices, IF order_dict.total > 0 THEN "unpaid" ELSE "paid")
                     /\ stripeTxn' = Append(stripeTxn, "none")
                     /\ handlers' = [handlers EXCEPT ![h] =
                           [kind |-> "create_order", order |-> Len(orders) + 1,
                            pc |-> "settle", result |-> "none"]]
    /\ UNCHANGED <<syncVars, now, settings, tasks, services, ops, mails>>

\* "if final_total == 0": the order is marked paid; provisioning is a TODO
create_order_settle(h) ==
    /\ At(h, "create_order", "settle")
    /\ orders' = IF orders[handlers[h].order].total = 0
                    THEN [orders EXCEPT ![handlers[h].order].status = "paid"]
                    ELSE orders
    /\ Finish(h, "ok")
    /\ UNCHANGED <<syncVars, now, settings, invoices, stripeTxn, tasks, services, ops, mails>>

\* the admin creates a paid order for a product and schedules its provisioning
create_manual_service(h) ==
    /\ handlers[h].pc = "idle"
    /\ Len(orders) < MaxOrders
    /\ orders' = Append(orders, manual_order("u1"))
    /\ invoices' = Append(invoices, "none")
    /\ stripeTxn' = Append(stripeTxn, "none")
    /\ tasks' = Append(tasks, [order |-> Len(orders) + 1, user |-> "u1", n |-> 1,
                               pc |-> "queued", i |-> 0, items |-> <<>>, pidx |-> 0,
                               existing |-> NoId, snap |-> NoDate, expiry |-> NoDate])
    /\ handlers' = [handlers EXCEPT ![h] =
          [kind |-> "create_manual_service", order |-> Len(orders) + 1,
           pc |-> "done", result |-> "ok"]]
    /\ UNCHANGED <<syncVars, now, settings, services, ops, mails>>

\* --------------------------------------------------------------- cancel_order
cancel_order_call(h, o) ==
    /\ Invoke(h, "cancel_order", o)
    /\ UNCHANGED <<syncVars, now, settings, orders, invoices, stripeTxn, tasks, services, ops, mails>>

\* find_one, then the two 400s or the fall-through to the updates
cancel_order_read(h) ==
    /\ At(h, "cancel_order", "read")
    /\ IF orders[handlers[h].order].status = "paid"
          THEN Finish(h, "400_paid")
          ELSE IF orders[handlers[h].order].status = "cancelled"
                  THEN Finish(h, "400_cancelled")
                  ELSE Goto(h, "write")
    /\ UNCHANGED <<syncVars, now, settings, orders, invoices, stripeTxn, tasks, services, ops, mails>>

\* the updates of the order and its invoice, the pending transactions
\* deleted, the cancellation mail
cancel_order_write(h) ==
    /\ At(h, "cancel_order", "write")
    /\ orders' = [orders EXCEPT ![handlers[h].order].status = "cancelled"]
    /\ invoices' = [invoices EXCEPT ![handlers[h].order] = IF @ = "none" THEN @ ELSE "cancelled"]
    /\ stripeTxn' = [stripeTxn EXCEPT ![handlers[h].order] = IF @ = "pending" THEN "none" ELSE @]
    /\ mails' = IF get_configured_email_service
                   THEN Append(mails, [order |-> handlers[h].order, idx |-> 0, kind |-> "order_cancelled"])
                   ELSE mails
    /\ Finish(h, "ok")
    /\ UNCHANGED <<syncVars, now, settings, tasks, services, ops>>

\* ------------------------------------------------------- order specification
\* no order yet, or one pending order awaiting payment
InitOrder ==
    /\ now = 1
    /\ settings = [smtp |-> TRUE, xtream |-> 1, xuione |-> 1, api_key |-> TRUE]
    /\ \/ orders = <<>> /\ invoices = <<>> /\ stripeTxn = <<>>
       \/ /\ orders = <<new_order("u1", 1, 1000, NoCoupon, 0)>>
          /\ invoices = <<"unpaid">>
          /\ stripeTxn = <<"none">>
    /\ handlers = [h \in Slots |-> IdleHandler]
    /\ tasks = <<>>
    /\ services \in Seeds
    /\ ops = <<>>
    /\ mails = <<>>
    /\ NoSync

NextOrder ==
    \/ \E h \in Slots : create_order_call(h)
    \/ \E h \in Slots : create_order_settle(h)
    \/ \E h \in Slots : create_manual_service(h)
    \/ \E h \in Slots : \E o \in DOMAIN orders : cancel_order_call(h, o)
    \/ \E h \in Slots : cancel_order_read(h)
    \/ \E h \in Slots : cancel_order_write(h)
    \/ \E h \in Slots : \E o \in DOMAIN orders : mark_order_paid_call(h, o)
    \/ \E h \in Slots : mark_order_paid_read(h)
    \/ \E h \in Slots : mark_order_paid_write(h)
    \/ \E t \in DOMAIN tasks : start_in_turn(t)
    \/ \E t \in DOMAIN tasks : provision_order_services_item(t)
    \/ \E t \in DOMAIN tasks : provision_xtream_service(t)
    \/ \E t \in DOMAIN tasks : provision_xuione_service(t)
    \/ \E t \in DOMAIN tasks : extend_xuione_line(t)
    \/ \E t \in DOMAIN tasks : provision_xuione_reseller(t)

SpecOrder == InitOrder /\ [][NextOrder]_vars

\* the event loop runs every handler that has been entered and every
\* background task that has been scheduled; whether a request arrives is
\* up to the clients
FairOrder ==
    /\ WF_vars(\E h \in Slots : create_order_settle(h))
    /\ WF_vars(\E h \in Slots : cancel_order_read(h))
    /\ WF_vars(\E h \in Slots : cancel_order_write(h))
    /\ WF_vars(\E h \in Slots : mark_order_paid_read(h))
    /\ WF_vars(\E h \in Slots : mark_order_paid_write(h))
    /\ WF_vars(\E t \in DOMAIN tasks : start_in_turn(t))
    /\ WF_vars(\E t \in DOMAIN tasks : provision_order_services_item(t))
    /\ WF_vars(\E t \in DOMAIN tasks : provision_xtream_service(t))
    /\ WF_vars(\E t \in DOMAIN tasks : provision_xuione_service(t))
    /\ WF_vars(\E t \in DOMAIN tasks : extend_xuione_line(t))
    /\ WF_vars(\E t \in DOMAIN tasks : provision_xuione_reseller(t))

SpecOrderLive == SpecOrder /\ FairOrder

\* ------------------------------------------------------------ claims, orders
\* C14: every stored order has total = subtotal - discount_amount -
\* credits_used, and a total that is not negative.
C14_TotalArithmetic ==
    \A o \in DOMAIN orders :
        /\ orders[o].total = orders[o].subtotal - orders[o].discount_amount - orders[o].credits_used
        /\ orders[o].total >= 0

\* C15: an order becomes cancelled only from pending.
C15_CancelOnlyFromPending ==
    [][\A o \in DOMAIN orders :
          (orders'[o].status = "cancelled" /\ orders[o].status # "cancelled")
              => orders[o].status = "pending"]_vars

\* C18: every order that is paid eventually has provision_order_services
\* running for it.
C18_PaidLeadsToProvisioning ==
    \A o \in OrderIds :
        (o \in DOMAIN orders /\ orders[o].status = "paid")
            ~> (\E t \in DOMAIN tasks : tasks[t].order = o /\ tasks[t].pc # "queued")


\* ----------------------------------------------------- claims, item outcomes
\* the services of customer u that are not credit add-ons
ServicesOf(u) == {s \in ServiceIds : services[s].user = u /\ ~services[s].addon}

\* task t has in hand a subscriber item that asks to extend a service the
\* customer holds, active, under the id the item names
ExtendsOwnService(t) ==
    /\ tasks[t].pc \notin {"queued", "loop", "done"}
    /\ item_of(t).account_type = "subscriber"
    /\ item_of(t).action_type = "extend"
    /\ item_of(t).renewal_service_id \in ServiceIds
    /\ services[item_of(t).renewal_service_id].user = tasks[t].user
    /\ services[item_of(t).renewal_service_id].status = "active"

\* C16: while an item that extends the customer's own active service is
\* provisioned, no service record is added: the customer's services that are
\* not credit add-ons stay the same records.
C16_ExtendAddsNoRecord ==
    [][\A t \in DOMAIN tasks :
          ExtendsOwnService(t) =>
              {s \in DOMAIN services' : services'[s].user = tasks[t].user /\ ~services'[s].addon}
                  = ServicesOf(tasks[t].user)]_vars


\* a subscriber item for a product of the catalog that asks for a new service
\* and names none to renew
CreatesNew(item) ==
    /\ product_found(item.product)
    /\ item.account_type = "subscriber"
    /\ item.action_type = "create_new"
    /\ item.renewal_service_id = NoId

\* C17: a create_new subscriber item with no renewal_service_id, for a product
\* that exists, is routed to
\* the creation branch, whatever services the customer holds, and its
\* provisioning adds exactly one to the customer's services that are not
\* credit add-ons.
C17_CreateNewAddsOne ==
    [][\A t \in DOMAIN tasks :
          /\ (Len(tasks'[t].items) > Len(tasks[t].items) /\ CreatesNew(tasks'[t].items[Len(tasks'[t].items)]))
                => (tasks'[t].pc \in {"xtream_call", "xuione_call"} /\ tasks'[t].existing = NoId)
          /\ (/\ tasks[t].pc \in {"xtream_call", "xuione_call"}
              /\ tasks'[t].i > tasks[t].i
              /\ CreatesNew(item_of(t)))
                => Cardinality({s \in DOMAIN services' :
                                   services'[s].user = tasks[t].user /\ ~services'[s].addon})
                      = Cardinality(ServicesOf(tasks[t].user)) + 1]_vars


\* the step issued an extend call that the panel answered with success
ExtendSucceeded ==
    /\ Len(ops') = Len(ops) + 1
    /\ ops'[Len(ops')].op = "extend_subscriber"
    /\ ops'[Len(ops')].ok

\* C19: the stored expiry of an existing service moves, and a renewal mail
\* goes out, only in a step whose extend call reported success.
C19_RenewalOnlyOnSuccess ==
    [][/\ \A e \in DOMAIN services :
             services'[e].expiry # services[e].expiry => ExtendSucceeded
       /\ (\E j \in DOMAIN mails' : j \notin DOMAIN mails /\ mails'[j].kind = "service_renewed")
             => ExtendSucceeded]_vars


\* the step is task t's creation call and the panel answered with success
CreateSucceeded(t) ==
    /\ tasks[t].pc \in {"xtream_call", "xuione_call"}
    /\ tasks[t].existing = NoId
    /\ tasks'[t].i > tasks[t].i
    /\ Len(ops') = Len(ops) + 1
    /\ ops'[Len(ops')].op = "create_subscriber"
    /\ ops'[Len(ops')].ok

\* C20: the expiry of a new-subscriber item is fixed, when the item is taken
\* up, at that time plus term_months * 30 days; a creation call that succeeds
\* stores exactly one record for the item, active, with that expiry.
C20_NewSubscriberRecord ==
    [][\A t \in DOMAIN tasks :
          /\ (/\ Len(tasks'[t].items) > Len(tasks[t].items)
              /\ tasks'[t].pc \in {"xtream_call", "xuione_call"})
                => tasks'[t].expiry
                      = now + tasks'[t].items[Len(tasks'[t].items)].term_months * DaysPerMonth
          /\ CreateSucceeded(t)
                => /\ Len(services') = Len(services) + 1
                   /\ SubSeq(services', 1, Len(services)) = services
                   /\ services'[Len(services')].status = "active"
                   /\ services'[Len(services')].expiry = tasks[t].expiry
                   /\ services'[Len(services')].order = tasks[t].order
                   /\ services'[Len(services')].product = item_of(t).product]_vars

\* a creation call has succeeded and its record is stored, active, a term ahead
C20_CreatedActive ==
    \E j \in DOMAIN ops : \E s \in DOMAIN services :
        /\ ops[j].op = "create_subscriber" /\ ops[j].ok
        /\ services[s].order = ops[j].order
        /\ services[s].status = "active"
        /\ services[s].expiry \in {n + DaysPerMonth : n \in 1..MaxNow}


\* ------------------------------------------------- claims, mirror frame
\* the step is a run of a single-panel sync
SinglePanelSync ==
    /\ report'.run = report.run + 1
    /\ report'.family \in Families

\* the stored records that carry another panel's name than panel 0 of family f
foreign_records(store, f) ==
    [r \in {x \in BagToSet(store) : x.panel_name # panel_name(f, 0)} |-> store[r]]

\* C28: a sync of one panel leaves every record of another panel, of either
\* family, as it was: none inserted, none changed, none deleted.
C28_SyncFrame ==
    [][SinglePanelSync =>
          foreign_records(imported', report'.family) = foreign_records(imported, report'.family)]_vars

\* C29: a sync run whose fetch of an account type failed deletes no stored
\* record of that account type of the panel it syncs.
C29_FailedFetchDeletesNothing ==
    [][SinglePanelSync =>
          \A r \in BagToSet(imported) :
              (/\ r.panel_name = panel_name(report'.family, 0)
               /\ \/ r.account_type = "subscriber" /\ ~report'.users_ok
                  \/ r.account_type = "reseller" /\ ~report'.resellers_ok)
                 => CopiesIn(r, imported') >= CopiesIn(r, imported)]_vars


\* ------------------------------------------------ claims, order lifecycle
\* C27: cancelled is terminal: no step changes the status of a cancelled
\* order and no step schedules provisioning for it.  (That a paid order keeps
\* its status is the property of C15.)
C27_CancelledIsTerminal ==
    [][\A o \in DOMAIN orders :
          orders[o].status = "cancelled"
             => /\ orders'[o].status = "cancelled"
                /\ \A t \in DOMAIN tasks' : tasks'[t].order = o => t \in DOMAIN tasks]_vars


\* ------------------------------------------------ claims, panel instance
\* the number of panels configured for the family of a product
panels_of(prod) ==
    IF product(prod).panel_type = "xuione" THEN settings.xuione ELSE settings.xtream

\* an item whose product names a panel index its family, which has panels,
\* does not have
StaleIndex(item) ==
    /\ product_found(item.product)
    /\ panels_of(item.product) > 0
    /\ product(item.product).panel_index >= panels_of(item.product)

\* C24: an item whose product names a panel index that is not configured is
\* routed to panel 0 of its family and reaches the panel call; the record
\* stored for it carries panel_index 0; and when the item is done the loop
\* goes on to the next item of the order.
C24_FallsBackToPanelZero ==
    [][\A t \in DOMAIN tasks :
          /\ (/\ Len(tasks'[t].items) > Len(tasks[t].items)
              /\ StaleIndex(tasks'[t].items[Len(tasks'[t].items)]))
                => /\ tasks'[t].pidx = 0
                   /\ tasks'[t].pc \in {"xtream_call", "xuione_call"}
          /\ (/\ tasks[t].pc \in {"xtream_call", "xuione_call"}
              /\ tasks'[t].i > tasks[t].i
              /\ StaleIndex(item_of(t)))
                => /\ Len(services') = Len(services) + 1
                   /\ services'[Len(services')].panel_index = 0
                   /\ services'[Len(services')].product = item_of(t).product
                   /\ tasks'[t].pc = IF tasks[t].i < tasks[t].n THEN "loop" ELSE "done"]_vars

\* a record of a product set up for panel 1 is stored under panel 0, and the
\* item after it has been taken up
C24_FellBackAndWentOn ==
    \E t \in DOMAIN tasks : \E s \in DOMAIN services :
        /\ Len(tasks[t].items) = 2
        /\ StaleIndex(tasks[t].items[1])
        /\ services[s].order = tasks[t].order
        /\ services[s].product = tasks[t].items[1].product
        /\ services[s].panel_index = 0


\* ------------------------------------------------------ claims, ownership
\* C30: a step that changes a stored service is a step of a task of the
\* customer who owns it; a service of another customer named by the item in
\* hand stays as it is.
C30_OnlyOwnServices ==
    [][/\ \A s \in DOMAIN services :
             services'[s] # services[s]
                => \E t \in DOMAIN tasks :
                      tasks'[t] # tasks[t] /\ tasks[t].user = services[s].user
       /\ \A t \in DOMAIN tasks :
             (/\ tasks[t].pc \notin {"queued", "loop", "done"}
              /\ item_of(t).renewal_service_id \in DOMAIN services
              /\ services[item_of(t).renewal_service_id].user # tasks[t].user)
                => services'[item_of(t).renewal_service_id]
                      = services[item_of(t).renewal_service_id]]_vars

\* an item naming another customer's active service has been provisioned
C30_ForeignTargetHandled ==
    \E t \in DOMAIN tasks :
        /\ tasks[t].pc = "done"
        /\ Len(tasks[t].items) >= 1
        /\ tasks[t].items[1].action_type = "extend"
        /\ tasks[t].items[1].renewal_service_id \in DOMAIN services
        /\ services[tasks[t].items[1].renewal_service_id].user # tasks[t].user
        /\ \E j \in DOMAIN ops : ops[j].order = tasks[t].order /\ ops[j].idx = 1


\* -------------------------------------------------- claims, lost session
\* C21: when the XuiOne create call is answered with an HTML page, the call
\* is made a second time (after a new login) before the item is recorded as
\* failed: the step that stores the record of an HTML answer has issued the
\* call twice.
C21_HtmlAnswerRetried ==
    [][\A t \in DOMAIN tasks :
          (/\ tasks[t].pc = "xuione_call"
           /\ tasks'[t].i > tasks[t].i
           /\ Len(services') = Len(services) + 1
           /\ services'[Len(services')].error = xuione_error("html"))
             => Len(ops') = Len(ops) + 2]_vars

\* ================================================================ lifecycle
\* the cancel sweep runs with days=30
CancelAfterDays == 30
MaxLifeNow == 63
MaxServices == 2

\* a request, or one document of a sweep's cursor, in a handler slot: the
\* service it read, the documents still to visit, and the day it began (kept
\* for those that went through)
life_handler(k, p, r, s, todo) ==
    [kind |-> k, order |-> NoId, pc |-> p, result |-> r, service |-> s,
     at |-> IF r \in {"none", "200"} /\ s # NoId THEN now ELSE NoDate, todo |-> todo]

\* a call to a panel made outside the provisioning loop
LifeOp(kind, family, ok, s) ==
    [order |-> NoId, idx |-> 0, op |-> kind, panel |-> family, ok |-> ok,
     target |-> s]

\* {"status": "active", "expiry_date": {"$lt": now}}: a null or missing date
\* does not match
has_expired(s) ==
    /\ services[s].status = "active"
    /\ services[s].expiry >= 0
    /\ services[s].expiry < now

\* the suspend sweep: its cursor yields a document ...
auto_suspend_read(h, s) ==
    /\ handlers[h].pc = "idle"
    /\ s \in ServiceIds
    /\ has_expired(s)
    /\ handlers' = [handlers EXCEPT ![h] = life_handler("auto_suspend", "write", "none", s, {})]
    /\ UNCHANGED <<syncVars, now, settings, orders, invoices, stripeTxn, tasks, services, ops, mails>>

\* ... and update_one by _id writes the status and the day the sweep began
auto_suspend_write(h) ==
    /\ At(h, "auto_suspend", "write")
    /\ services' = [services EXCEPT ![handlers[h].service].status = "suspended",
                                    ![handlers[h].service].suspended_at = handlers[h].at]
    /\ Finish(h, "swept")
    /\ UNCHANGED <<syncVars, now, settings, orders, invoices, stripeTxn, tasks, ops, mails>>

\* {"status": "suspended", "suspended_at": {"$lt": now - days}}: a document
\* without suspended_at does not match
long_suspended(s, days) ==
    /\ services[s].status = "suspended"
    /\ services[s].suspended_at >= 0
    /\ services[s].suspended_at < now - days

\* the cancel sweep, one document of its cursor
auto_cancel_long_suspended(s) ==
    /\ s \in ServiceIds
    /\ long_suspended(s, CancelAfterDays)
    /\ services' = [services EXCEPT ![s].status = "cancelled"]
    /\ UNCHANGED <<syncVars, now, settings, orders, invoices, stripeTxn, handlers, tasks, ops, mails>>

\* POST /api/admin/services/{id}/suspend: the panel's answer decides
suspend_service(h, s, ok) ==
    /\ handlers[h].pc = "idle"
    /\ IF s \notin ServiceIds
          THEN /\ handlers' = [handlers EXCEPT ![h] = life_handler("suspend_service", "done", "404", s, {})]
               /\ UNCHANGED <<services, ops>>
          ELSE /\ ops' = Append(ops, LifeOp("suspend_account", "xtream", ok, s))
               /\ services' = IF ok THEN [services EXCEPT ![s].status = "suspended"] ELSE services
               /\ handlers' = [handlers EXCEPT ![h] =
                                 life_handler("suspend_service", "done", IF ok THEN "200" ELSE "500", s, {})]
    /\ UNCHANGED <<syncVars, now, settings, orders, invoices, stripeTxn, tasks, mails>>

\* POST /api/admin/services/{id}/unsuspend
unsuspend_service(h, s, ok) ==
    /\ handlers[h].pc = "idle"
    /\ IF s \notin ServiceIds
          THEN /\ handlers' = [handlers EXCEPT ![h] = life_handler("unsuspend_service", "done", "404", s, {})]
               /\ UNCHANGED <<services, ops>>
          ELSE /\ ops' = Append(ops, LifeOp("unsuspend_account", "xtream", ok, s))
               /\ services' = IF ok THEN [services EXCEPT ![s].status = "active"] ELSE services
               /\ handlers' = [handlers EXCEPT ![h] =
                                 life_handler("unsuspend_service", "done", IF ok THEN "200" ELSE "500", s, {})]
    /\ UNCHANGED <<syncVars, now, settings, orders, invoices, stripeTxn, tasks, mails>>

\* services_collection.find({"order_id": order_id}), kept where the loop
\* goes on: status in ["active", "suspended"]
refund_services(o) ==
    {s \in ServiceIds : services[s].order = o /\ services[s].status \in {"active", "suspended"}}

\* POST /api/admin/refunds/{id}/approve up to the list of services: the
\* refund of order o is approved if it is pending
approve_refund_endpoint(h, o) ==
    /\ handlers[h].pc = "idle"
    /\ o \in DOMAIN orders
    /\ CASE orders[o].refund = "none" ->
              /\ handlers' = [handlers EXCEPT ![h] = life_handler("approve_refund", "done", "404", NoId, {})]
              /\ UNCHANGED orders
         [] orders[o].refund = "pending" ->
              /\ orders' = [orders EXCEPT ![o].refund = "approved"]
              /\ handlers' = [handlers EXCEPT ![h] =
                                IF refund_services(o) = {}
                                   THEN life_handler("approve_refund", "done", "200", NoId, {})
                                   ELSE life_handler("approve_refund", "services", "none", NoId,
                                                     refund_services(o))]
         [] OTHER ->
              /\ handlers' = [handlers EXCEPT ![h] = life_handler("approve_refund", "done", "500", NoId, {})]
              /\ UNCHANGED orders
    /\ UNCHANGED <<syncVars, now, settings, invoices, stripeTxn, tasks, services, ops, mails>>

RefundOutcomes == {"login_failed", "ok", "rejected"}

\* service.get("panel_type", "xtream")
refund_family(s) == IF services[s].panel_type = "none" THEN "xtream" ELSE services[s].panel_type

\* the calls the loop makes to the panel for one service
refund_suspend_ops(s, outcome) ==
    CASE refund_family(s) = "xtream" /\ services[s].panel_index < settings.xtream ->
            <<LifeOp("suspend_account", "xtream", outcome = "ok", s)>>
      [] refund_family(s) = "xuione" /\ services[s].panel_index < settings.xuione ->
            IF outcome = "login_failed"
               THEN <<LifeOp("login", "xuione", FALSE, s)>>
               ELSE IF services[s].line
                       THEN <<LifeOp("edit_line", "xuione", outcome = "ok", s)>>
                       ELSE <<>>
      [] OTHER -> <<>>

\* one turn of the loop: the panel call, then update_one by _id
approve_refund_service(h, outcome) ==
    /\ At(h, "approve_refund", "services")
    /\ LET s == CHOOSE x \in handlers[h].todo : \A y \in handlers[h].todo : x <= y
           rest == handlers[h].todo \ {s}
       IN /\ ops' = ops \o refund_suspend_ops(s, outcome)
          /\ services' = [services EXCEPT ![s].status = "refunded"]
          /\ handlers' = [handlers EXCEPT ![h].todo = rest,
                                          ![h].service = s,
                                          ![h].pc = IF rest = {} THEN "done" ELSE "services",
                                          ![h].result = IF rest = {} THEN "200" ELSE "none"]
    /\ UNCHANGED <<syncVars, now, settings, orders, invoices, stripeTxn, tasks, mails>>

\* a quiet period as long as the cancel sweep's cutoff
LifeTick ==
    /\ now + CancelAfterDays <= MaxLifeNow
    /\ now' = now + CancelAfterDays
    /\ UNCHANGED <<syncVars, settings, orders, invoices, stripeTxn, handlers, tasks, services, ops, mails>>

\* the services of the lifecycle runs: seeds, and services an order created
\* (a XuiOne line created without an id in the answer has none stored)
LifeSeedSet ==
    {r \in {[x EXCEPT !.order = o, !.line = l] :
               x \in SeedSet, o \in {NoId, 1}, l \in BOOLEAN} :
        r.user = "u1" /\ (r.line \/ r.panel_type = "xuione")}

LifeSeeds == UNION {[1..k -> LifeSeedSet] : k \in 1..MaxServices}

\* one provisioned order of customer u1, with or without a pending refund
\* request, and the services in the store
InitLife ==
    /\ now = 1
    /\ settings \in {c \in SettingsSet : c.xtream = 1 /\ c.api_key /\ ~c.smtp}
    /\ \E r \in {"none", "pending"} :
          orders = <<[user |-> "u1", n |-> 1, status |-> "paid", refund |-> r]>>
    /\ invoices = <<"paid">>
    /\ stripeTxn = <<"pending">>
    /\ tasks = <<>>
    /\ handlers = [h \in Slots |-> IdleHandler]
    /\ services \in LifeSeeds
    /\ ops = <<>>
    /\ mails = <<>>
    /\ NoSync

\* the slots are taken in order
next_slot(h) == \A g \in Slots : g < h => handlers[g].pc # "idle"

\* add_job without max_instances: one run of the suspend job at a time
sweep_idle == \A g \in Slots : ~At(g, "auto_suspend", "write")

NextLife ==
    \/ Tick
    \/ LifeTick
    \/ \E h \in Slots, s \in ServiceIds : next_slot(h) /\ sweep_idle /\ auto_suspend_read(h, s)
    \/ \E h \in Slots : auto_suspend_write(h)
    \/ \E s \in ServiceIds : auto_cancel_long_suspended(s)
    \/ \E h \in Slots, s \in ServiceIds \cup {NoId}, ok \in BOOLEAN :
          next_slot(h) /\ suspend_service(h, s, ok)
    \/ \E h \in Slots, s \in ServiceIds \cup {NoId}, ok \in BOOLEAN :
          next_slot(h) /\ unsuspend_service(h, s, ok)
    \/ \E h \in Slots, o \in DOMAIN orders : next_slot(h) /\ approve_refund_endpoint(h, o)
    \/ \E h \in Slots, outcome \in RefundOutcomes : approve_refund_service(h, outcome)

SpecLife == InitLife /\ [][NextLife]_vars

\* the suspend sweep beside the provisioning of one paid order
NextSweep ==
    \/ NextProv
    \/ \E h \in Slots, s \in ServiceIds : next_slot(h) /\ sweep_idle /\ auto_suspend_read(h, s)
    \/ \E h \in Slots : auto_suspend_write(h)

SpecSweep == InitItem /\ [][NextSweep]_vars

\* ------------------------------------------------------------------ claims
\* C26: a service whose status is refunded or cancelled never becomes active
\* again, whatever the operation
C26_RefundedCancelledStayInactive ==
    [][\A s \in DOMAIN services :
          services[s].status \in {"refunded", "cancelled"}
             => services'[s].status # "active"]_vars

\* C22: each turn of the refund approval's loop sets its service to refunded
\* and makes a call for that service to the panel family that hosts it
C22_RefundSuspendsRemotely ==
    [][\A h \in Slots :
          (At(h, "approve_refund", "services") /\ handlers'[h] # handlers[h])
             => LET s == handlers'[h].service
                IN /\ services'[s].status = "refunded"
                   /\ Len(ops') = Len(ops) + 1
                   /\ ops'[Len(ops')].target = s
                   /\ ops'[Len(ops')].panel = refund_family(s)]_vars

\* C25: with the suspend sweep and a renewal at work on the same service, no
\* service is suspended while its expiry date lies in the future
C25_NoSuspendedWithFutureExpiry ==
    \A s \in ServiceIds :
       services[s].status = "suspended" => services[s].expiry <= now

\* the scheduler starts the cancel sweep every day, a sweep under way goes on,
\* and days pass
FairLife ==
    /\ WF_vars(Tick)
    /\ WF_vars(LifeTick)
    /\ \A h \in Slots : WF_vars(auto_suspend_write(h))
    /\ \A s \in 1..MaxServices : WF_vars(auto_cancel_long_suspended(s))

SpecLifeLive == InitLife /\ [][NextLife]_vars /\ FairLife

\* the admin's suspend request for service s went through more than days ago,
\* and no sweep has suspended the service
admin_suspended_for(s, days) ==
    /\ s \in ServiceIds
    /\ services[s].status = "suspended"
    /\ services[s].suspended_at = NoDate
    /\ \E h \in Slots : /\ handlers[h].kind = "suspend_service"
                        /\ handlers[h].result = "200"
                        /\ handlers[h].service = s
                        /\ handlers[h].at + days < now

\* C23: a service suspended for more than 30 days, by the sweep or by the
\* admin, does not stay suspended: the cancel sweep sets it to cancelled
\* (unless another operation changes its status first)
C23_LongSuspendedIsCancelled ==
    \A s \in 1..MaxServices :
       ((s \in ServiceIds /\ long_suspended(s, CancelAfterDays))
           \/ admin_suspended_for(s, CancelAfterDays))
          ~> (s \in ServiceIds /\ services[s].status # "suspended")

=============================================================================
